---- MODULE Spec2Model ----
(***************************************************************************)
(* State-machine model of two files of the th1520 Linux kernel tree:       *)
(*   arch/riscv/lib/string.c      __memcpy and __memcpy_aligned            *)
(*   drivers/pwm/pwm-thead.c      the T-HEAD PWM driver's .apply path      *)
(*                                                                         *)
(* Memory is a byte array.  A machine word (unsigned long) is the tuple of *)
(* its BYTES_LONG bytes in little-endian order (RISC-V): w[k] is the byte  *)
(* of weight 256^(k-1), stored at address a + k - 1.  A size_t is held as  *)
(* an integer r standing for r mod 2^64, so a negative r is a value that   *)
(* wrapped below zero (-1 is SIZE_MAX).                                    *)
(***************************************************************************)
EXTENDS Integers, Sequences, FiniteSets, TLC

\* ---------------------------------------------------------------- bounds
\* Every count in 0..MaxCount is tried with every pair of alignments: the
\* byte path, the threshold, and a prefix with up to three words behind it.
MaxCount == 32
\* So is every count from one block of the unrolled helper to BlockSpan more.
BlockSpan == 8
\* So is every count from two blocks and a full prefix to LongSpan more.
LongSpan == 1
\* Counts of the two concurrent calls.
ConcShort == 17
ConcLong == 70

\* ------------------------------------------------------- string.c constants
BYTES_LONG == 8
WORD_MASK == BYTES_LONG - 1
MIN_THRESHOLD == BYTES_LONG * 2
\* BYTES_LONG * 8: the bytes one round of __memcpy_aligned copies
BLOCK_BYTES == BYTES_LONG * 8

RoundUp(x, m) == ((x + m - 1) \div m) * m
Max(a, b) == IF a >= b THEN a ELSE b

\* The byte array of a call on count bytes: a source arena, then a destination
\* arena, each with a word of slack on both sides of the largest region.
SrcBase == BYTES_LONG
DstBase(count) == RoundUp(SrcBase + BYTES_LONG + count + 2 * BYTES_LONG, BYTES_LONG)
MemSize(count) == DstBase(count) + BYTES_LONG + count + 2 * BYTES_LONG
Threads == {1, 2}

VARIABLES
  mem,                  \* [Addr -> 0..255], the bytes of memory
  th,                   \* per thread: the registers of its __memcpy call
  efficient_unaligned,  \* IS_ENABLED(CONFIG_HAVE_EFFICIENT_UNALIGNED_ACCESS)
  nstores,              \* history: [Addr -> Nat], byte stores made to each address
  oobst,                \* history: per thread, addresses stored outside its dest region
  oobld,                \* history: per thread, addresses loaded outside its src region
  ctrl,                 \* [channel -> u32], the LIGHT_PWM_CTRL(n) registers
  per,                  \* [channel -> u32], the LIGHT_PWM_PER(n) registers
  fp,                   \* [channel -> u32], the LIGHT_PWM_FP(n) registers
  pwm_state,            \* [channel -> pwm->state]: enabled and polarity
  clk_rate,             \* clk_get_rate(pc->clk)
  pm_gets,              \* history: pm_runtime_get_sync calls made so far
  pm_puts,              \* history: pm_runtime_put_sync calls made so far
  applied,              \* history: the most recent thead_pwm_apply call
  ncalls                \* history: thead_pwm_apply calls made so far

memvars == <<mem, th, efficient_unaligned, nstores, oobst, oobld>>
pwmvars == <<ctrl, per, fp, pwm_state, clk_rate, pm_gets, pm_puts, applied, ncalls>>
vars == <<mem, th, efficient_unaligned, nstores, oobst, oobld,
          ctrl, per, fp, pwm_state, clk_rate, pm_gets, pm_puts, applied, ncalls>>

\* ------------------------------------------------------------ size_t
\* Unsigned a < b on the representatives.
ULess(a, b) == IF (a >= 0) = (b >= 0) THEN a < b ELSE a >= 0

\* ------------------------------------------------------------ words
ZeroWord == [k \in 1..BYTES_LONG |-> 0]

RECURSIVE BitOr(_, _)
BitOr(a, b) ==
  IF a = 0 THEN b
  ELSE IF b = 0 THEN a
  ELSE (IF (a % 2 = 1) \/ (b % 2 = 1) THEN 1 ELSE 0) + 2 * BitOr(a \div 2, b \div 2)

\* w >> bits and w << bits on an unsigned long; bits is a multiple of 8 in
\* every use, so the shift moves whole bytes and drops those leaving the word.
ShiftRight(w, bits) ==
  [k \in 1..BYTES_LONG |-> IF k + bits \div 8 <= BYTES_LONG THEN w[k + bits \div 8] ELSE 0]
ShiftLeft(w, bits) ==
  [k \in 1..BYTES_LONG |-> IF k - bits \div 8 >= 1 THEN w[k - bits \div 8] ELSE 0]
WordOr(v, w) == [k \in 1..BYTES_LONG |-> BitOr(v[k], w[k])]

\* ShiftMerge with the two shifts the other way round, as a big-endian word
\* layout would need them.
ShiftMergeBigEndian(last, next, distance) ==
  WordOr(ShiftLeft(last, distance * 8),
         ShiftRight(next, (BYTES_LONG - distance) * 8))

\* last >> (distance * 8) | next << ((BYTES_LONG - distance) * 8)
ShiftMerge(last, next, distance) ==
  WordOr(ShiftRight(last, distance * 8),
         ShiftLeft(next, (BYTES_LONG - distance) * 8))

\* ------------------------------------------------------------ memory
\* An access outside the modelled memory faults: the call goes no further.
Addr == DOMAIN mem
Mapped(a, len) == a \in Addr /\ (a + len - 1) \in Addr

LoadWord(a) == [k \in 1..BYTES_LONG |-> mem[a + k - 1]]

InSrc(t, x) == x >= th[t].src /\ x < th[t].src + th[t].n
InDest(t, x) == x >= th[t].dest /\ x < th[t].dest + th[t].n

\* A load of len bytes at a by thread t.
Load(t, a, len) ==
  oobld' = [oobld EXCEPT ![t] = @ \cup {x \in a .. (a + len - 1) : ~InSrc(t, x)}]

\* f with f[a + k - 1] set to b[k], for k = 1..len.
RECURSIVE Patch(_, _, _, _)
Patch(f, a, b, len) ==
  IF len = 0 THEN f ELSE Patch([f EXCEPT ![a + len - 1] = b[len]], a, b, len - 1)

\* A store by thread t of the bytes b[1..len] at a.
Store(t, a, b, len) ==
  /\ mem' = Patch(mem, a, b, len)
  /\ nstores' = Patch(nstores, a, [k \in 1 .. len |-> nstores[a + k - 1] + 1], len)
  /\ oobst' = [oobst EXCEPT ![t] = @ \cup {x \in a .. (a + len - 1) : ~InDest(t, x)}]

NoStore == UNCHANGED <<mem, nstores, oobst>>
NoLoad == UNCHANGED oobld

\* The contents of memory, size bytes of it, before any call.
InitByte(a) == (a * 37 + 11) % 256
InitMem(size) == [a \in 0 .. (size - 1) |-> InitByte(a)]

\* ------------------------------------------------------------ a call
\* The registers of a thread entering __memcpy(dest, src, count).  n keeps the
\* count argument, which the code counts down in place.
Call(dest, src, count) ==
  [pc |-> "entry", dest |-> dest, src |-> src, n |-> count,
   count |-> count, s |-> src, d |-> dest, distance |-> 0,
   last |-> ZeroWord, next |-> ZeroWord, byte |-> 0,
   aligned_count |-> 0,
   a_dest |-> 0, a_src |-> 0, a_count |-> 0, i |-> 0,
   dreg |-> [k \in 1..8 |-> ZeroWord],
   ret |-> -1]

Idle == [Call(0, 0, 0) EXCEPT !.pc = "idle"]

Set(t, r) == th' = [th EXCEPT ![t] = r]

\* ------------------------------------------------------------ __memcpy
\* Lines 57-64: the threshold gate and the choice of the prefix step.
Entry(t) ==
  /\ th[t].pc = "entry"
  /\ Set(t, [th[t] EXCEPT !.pc =
         IF ULess(th[t].count, MIN_THRESHOLD) THEN "copy_remainder"
         ELSE IF ~efficient_unaligned THEN "align"
         ELSE "bulk"])
  /\ NoStore /\ NoLoad
  /\ UNCHANGED <<efficient_unaligned, pwmvars>>

\* Lines 66-67: the loop test and the load of *s.as_u8++.
AlignLoad(t) ==
  /\ th[t].pc = "align"
  /\ th[t].d % BYTES_LONG # 0
  /\ Mapped(th[t].s, 1)
  /\ Load(t, th[t].s, 1)
  /\ Set(t, [th[t] EXCEPT !.byte = mem[th[t].s], !.s = @ + 1, !.pc = "align_st"])
  /\ NoStore
  /\ UNCHANGED <<efficient_unaligned, pwmvars>>

\* Lines 66-67: the store to *d.as_u8++, then count--.
AlignStore(t) ==
  /\ th[t].pc = "align_st"
  /\ Mapped(th[t].d, 1)
  /\ Store(t, th[t].d, <<th[t].byte>>, 1)
  /\ Set(t, [th[t] EXCEPT !.d = @ + 1, !.count = @ - 1, !.pc = "align"])
  /\ NoLoad
  /\ UNCHANGED <<efficient_unaligned, pwmvars>>

\* Distance left at its initial 0 after the prefix loop.
DistanceZero(s) == 0

\* Line 69: s.as_uptr & WORD_MASK.
Distance(s) == s % BYTES_LONG

\* Lines 66, 69: the destination is aligned; distance = s.as_uptr & WORD_MASK.
AlignDone(t) ==
  /\ th[t].pc = "align"
  /\ th[t].d % BYTES_LONG = 0
  /\ Set(t, [th[t] EXCEPT !.distance = Distance(th[t].s), !.pc = "bulk"])
  /\ NoStore /\ NoLoad
  /\ UNCHANGED <<efficient_unaligned, pwmvars>>

\* Lines 72, 81: if (distance), s.as_u8 -= distance.
ShiftBegin(t) ==
  /\ th[t].pc = "bulk"
  /\ th[t].distance # 0
  /\ Set(t, [th[t] EXCEPT !.s = @ - th[t].distance, !.pc = "shift_first"])
  /\ NoStore /\ NoLoad
  /\ UNCHANGED <<efficient_unaligned, pwmvars>>

\* Line 83: next = s.as_ulong[0].
ShiftFirstLoad(t) ==
  /\ th[t].pc = "shift_first"
  /\ Mapped(th[t].s, BYTES_LONG)
  /\ Load(t, th[t].s, BYTES_LONG)
  /\ Set(t, [th[t] EXCEPT !.next = LoadWord(th[t].s), !.pc = "shift_loop"])
  /\ NoStore
  /\ UNCHANGED <<efficient_unaligned, pwmvars>>

\* ShiftMore as count > 0: the loop goes on while any byte is left.
ShiftMoreAny(count) == count # 0

\* Line 84: the test of the shift-merge loop, count >= BYTES_LONG.
ShiftMore(count) == ~ULess(count, BYTES_LONG)

\* LookAhead one word too far, s.as_ulong[2].
LookAheadTwo(s) == s + 2 * BYTES_LONG

\* Line 86: the address of s.as_ulong[1].
LookAhead(s) == s + BYTES_LONG

\* Lines 84-86: last = next; next = s.as_ulong[1].
ShiftLoad(t) ==
  /\ th[t].pc = "shift_loop"
  /\ ShiftMore(th[t].count)
  /\ Mapped(LookAhead(th[t].s), BYTES_LONG)
  /\ Load(t, LookAhead(th[t].s), BYTES_LONG)
  /\ Set(t, [th[t] EXCEPT !.last = th[t].next,
                          !.next = LoadWord(LookAhead(th[t].s)),
                          !.pc = "shift_st"])
  /\ NoStore
  /\ UNCHANGED <<efficient_unaligned, pwmvars>>

\* Lines 88-92 and the loop's count -= BYTES_LONG.
ShiftStore(t) ==
  /\ th[t].pc = "shift_st"
  /\ Mapped(th[t].d, BYTES_LONG)
  /\ Store(t, th[t].d, ShiftMerge(th[t].last, th[t].next, th[t].distance), BYTES_LONG)
  /\ Set(t, [th[t] EXCEPT !.d = @ + BYTES_LONG, !.s = @ + BYTES_LONG,
                          !.count = @ - BYTES_LONG, !.pc = "shift_loop"])
  /\ NoLoad
  /\ UNCHANGED <<efficient_unaligned, pwmvars>>

\* Restore left out: s stays rewound.
RestoreNone(s, distance) == s

\* Line 96: s.as_u8 += distance.
Restore(s, distance) == s + distance

\* Lines 84, 96: the loop ends; s.as_u8 += distance.
ShiftDone(t) ==
  /\ th[t].pc = "shift_loop"
  /\ ~ShiftMore(th[t].count)
  /\ Set(t, [th[t] EXCEPT !.s = Restore(@, th[t].distance), !.pc = "copy_remainder"])
  /\ NoStore /\ NoLoad
  /\ UNCHANGED <<efficient_unaligned, pwmvars>>

\* AlignedCount without the truncation to whole blocks.
AlignedCountAll(count) == count

\* Line 102: count & ~(BYTES_LONG * 8 - 1).
AlignedCount(count) == count - (count % BLOCK_BYTES)

\* Lines 72, 102-104: the else branch calls __memcpy_aligned(d, s, aligned_count).
AlignedCall(t) ==
  /\ th[t].pc = "bulk"
  /\ th[t].distance = 0
  /\ Set(t, [th[t] EXCEPT !.aligned_count = AlignedCount(th[t].count),
                          !.a_dest = th[t].d, !.a_src = th[t].s,
                          !.a_count = AlignedCount(th[t].count),
                          !.pc = "aligned_loop"])
  /\ NoStore /\ NoLoad
  /\ UNCHANGED <<efficient_unaligned, pwmvars>>

\* ------------------------------------------------------ __memcpy_aligned
\* Line 32: the loop test count > 0 holds.
AlignedEnter(t) ==
  /\ th[t].pc = "aligned_loop"
  /\ th[t].a_count # 0
  /\ Set(t, [th[t] EXCEPT !.i = 0, !.pc = "aligned_ld"])
  /\ NoStore /\ NoLoad
  /\ UNCHANGED <<efficient_unaligned, pwmvars>>

\* Lines 34-41: d<i> = src[i], for i = 0..7 in turn.
AlignedLoad(t) ==
  /\ th[t].pc = "aligned_ld"
  /\ Mapped(th[t].a_src + th[t].i * BYTES_LONG, BYTES_LONG)
  /\ Load(t, th[t].a_src + th[t].i * BYTES_LONG, BYTES_LONG)
  /\ Set(t, [th[t] EXCEPT
         !.dreg = [@ EXCEPT ![th[t].i + 1] = LoadWord(th[t].a_src + th[t].i * BYTES_LONG)],
         !.i = IF th[t].i = 7 THEN 0 ELSE @ + 1,
         !.pc = IF th[t].i = 7 THEN "aligned_st" ELSE "aligned_ld"])
  /\ NoStore
  /\ UNCHANGED <<efficient_unaligned, pwmvars>>

\* AlignedNext counting one word, not eight, per round.
AlignedNextWord(count) == count - BYTES_LONG

\* Line 32: count -= BYTES_LONG * 8.
AlignedNext(count) == count - BLOCK_BYTES

\* Lines 42-51: dest[i] = d<i>, for i = 0..7 in turn; after the last, dest += 8,
\* src += 8 and the loop's count -= BYTES_LONG * 8.
AlignedStore(t) ==
  /\ th[t].pc = "aligned_st"
  /\ Mapped(th[t].a_dest + th[t].i * BYTES_LONG, BYTES_LONG)
  /\ Store(t, th[t].a_dest + th[t].i * BYTES_LONG, th[t].dreg[th[t].i + 1], BYTES_LONG)
  /\ Set(t, IF th[t].i = 7
            THEN [th[t] EXCEPT !.i = 0,
                               !.a_dest = @ + 8 * BYTES_LONG,
                               !.a_src = @ + 8 * BYTES_LONG,
                               !.a_count = AlignedNext(@),
                               !.pc = "aligned_loop"]
            ELSE [th[t] EXCEPT !.i = @ + 1])
  /\ NoLoad
  /\ UNCHANGED <<efficient_unaligned, pwmvars>>

\* Line 32 fails, the helper returns; lines 105-107 of __memcpy.
AlignedReturn(t) ==
  /\ th[t].pc = "aligned_loop"
  /\ th[t].a_count = 0
  /\ Set(t, [th[t] EXCEPT !.d = @ + th[t].aligned_count,
                          !.s = @ + th[t].aligned_count,
                          !.count = @ % BLOCK_BYTES,
                          !.pc = "copy_remainder"])
  /\ NoStore /\ NoLoad
  /\ UNCHANGED <<efficient_unaligned, pwmvars>>

\* ------------------------------------------------------ copy_remainder
\* Lines 111-112: while (count--) is true; the load of *s.as_u8++.
TailLoad(t) ==
  /\ th[t].pc = "copy_remainder"
  /\ th[t].count # 0
  /\ Mapped(th[t].s, 1)
  /\ Load(t, th[t].s, 1)
  /\ Set(t, [th[t] EXCEPT !.count = @ - 1, !.byte = mem[th[t].s],
                          !.s = @ + 1, !.pc = "tail_st"])
  /\ NoStore
  /\ UNCHANGED <<efficient_unaligned, pwmvars>>

\* Line 112: the store to *d.as_u8++.
TailStore(t) ==
  /\ th[t].pc = "tail_st"
  /\ Mapped(th[t].d, 1)
  /\ Store(t, th[t].d, <<th[t].byte>>, 1)
  /\ Set(t, [th[t] EXCEPT !.d = @ + 1, !.pc = "copy_remainder"])
  /\ NoLoad
  /\ UNCHANGED <<efficient_unaligned, pwmvars>>

\* Lines 111, 114: while (count--) is false, its decrement still made; return dest.
Return(t) ==
  /\ th[t].pc = "copy_remainder"
  /\ th[t].count = 0
  /\ Set(t, [th[t] EXCEPT !.count = @ - 1, !.ret = th[t].dest, !.pc = "done"])
  /\ NoStore /\ NoLoad
  /\ UNCHANGED <<efficient_unaligned, pwmvars>>

\* ======================================================== pwm-thead.c
\* Bound on the thead_pwm_apply calls of one behaviour.
MaxCalls == 3
\* Channels modelled, of the MAX_PWM_NUM the chip has.
NumChannels == 2
\* Largest period and duty cycle requested, in ns.
MaxNs == 1

MAX_PWM_NUM == 6
PWM_START == 1
PWM_CFG_UPDATE == 4
PWM_INT_EN == 8
PWM_CONTINUOUS_MODE == 32
PWM_FPOUT == 256
PWM_INFACTOUT == 512
PWM_POLARITY_NORMAL == 0
PWM_POLARITY_INVERSED == 1
EINVAL == 22
NSEC_PER_SEC == 1000000000

\* Line 240: npwm = MAX_PWM_NUM; hwpwm is below it.
Channels == 0 .. ((IF NumChannels < MAX_PWM_NUM THEN NumChannels ELSE MAX_PWM_NUM) - 1)

\* value & bit, value | bit and value & ~bit for a single-bit mask.
HasBit(value, bit) == (value \div bit) % 2 = 1
BitSet(value, bit) == IF HasBit(value, bit) THEN value ELSE value + bit
BitClear(value, bit) == IF HasBit(value, bit) THEN value - bit ELSE value

\* The device as the driver's functions see it: the registers and the calls
\* made to the runtime-PM service.
Dev == [ctrl |-> ctrl, per |-> per, fp |-> fp, gets |-> pm_gets, puts |-> pm_puts]

pm_runtime_get_sync(dev) == [dev EXCEPT !.gets = @ + 1]
pm_runtime_put_sync(dev) == [dev EXCEPT !.puts = @ + 1]

\* Lines 62-79.  pmret is what pm_runtime_get_sync returns.
thead_pwm_enable(dev, hwpwm, pmret) ==
  LET got == pm_runtime_get_sync(dev)
  IN IF pmret < 0
     THEN [dev |-> got, ret |-> pmret]
     ELSE [dev |-> [got EXCEPT !.ctrl[hwpwm] = BitSet(got.ctrl[hwpwm], PWM_START)],
           ret |-> 0]

\* Lines 81-91.
thead_pwm_disable(dev, hwpwm) ==
  pm_runtime_put_sync([dev EXCEPT !.ctrl[hwpwm] = BitClear(dev.ctrl[hwpwm], PWM_START)])

\* Line 99: PWM_INFACTOUT | PWM_FPOUT | PWM_CONTINUOUS_MODE | PWM_INT_EN.
ConfigCtrl == PWM_INFACTOUT + PWM_FPOUT + PWM_CONTINUOUS_MODE + PWM_INT_EN

\* Lines 115-116, 119-120: ns * rate, then do_div by NSEC_PER_SEC.
Cycles(ns, rate) == (ns * rate) \div NSEC_PER_SEC

\* Lines 93-130.
thead_pwm_config(dev, hwpwm, duty_ns, period_ns, rate, pmret) ==
  IF duty_ns > period_ns
  THEN [dev |-> dev, ret |-> -EINVAL]
  ELSE LET got == pm_runtime_get_sync(dev)
       IN IF pmret < 0
          THEN [dev |-> got, ret |-> pmret]
          ELSE LET \* lines 113-121: CTRL, PER and FP are written
                   cfgd == [got EXCEPT !.ctrl[hwpwm] = ConfigCtrl,
                                       !.per[hwpwm] = Cycles(period_ns, rate),
                                       !.fp[hwpwm] = Cycles(duty_ns, rate)]
                   \* lines 123-125: CTRL is read back and PWM_CFG_UPDATE set
                   upd == [cfgd EXCEPT !.ctrl[hwpwm] = BitSet(cfgd.ctrl[hwpwm], PWM_CFG_UPDATE)]
               IN [dev |-> pm_runtime_put_sync(upd), ret |-> 0]

\* Lines 132-156: the register is read before the device is resumed.
thead_pwm_set_polarity(dev, hwpwm, polarity, pmret) ==
  LET value == dev.ctrl[hwpwm]
      got == pm_runtime_get_sync(dev)
  IN IF pmret < 0
     THEN [dev |-> got, ret |-> pmret]
     ELSE [dev |-> pm_runtime_put_sync(
                     [got EXCEPT !.ctrl[hwpwm] =
                        IF polarity = PWM_POLARITY_NORMAL
                        THEN BitSet(value, PWM_FPOUT)
                        ELSE BitClear(value, PWM_FPOUT)]),
           ret |-> 0]

\* Lines 158-181.  cur is pwm->state, state the request; pm1, pm2 and pm3 are
\* what pm_runtime_get_sync returns in set_polarity, config and enable.
thead_pwm_apply(dev, hwpwm, cur, state, rate, pm1, pm2, pm3) ==
  LET enabled == cur.enabled
      dev1 == IF state.polarity # cur.polarity
              THEN thead_pwm_set_polarity(dev, hwpwm, state.polarity, pm1).dev
              ELSE dev
  IN IF ~state.enabled
     THEN [dev |-> IF enabled THEN thead_pwm_disable(dev1, hwpwm) ELSE dev1, ret |-> 0]
     ELSE LET cfg == thead_pwm_config(dev1, hwpwm, state.duty_cycle, state.period, rate, pm2)
          IN IF cfg.ret # 0
             THEN cfg
             ELSE IF ~enabled
                  THEN thead_pwm_enable(cfg.dev, hwpwm, pm3)
                  ELSE cfg

\* The caller of .apply keeps the request as pwm->state when .apply returns 0.
pwm_apply_state(cur, state, ret) ==
  IF ret = 0 THEN [enabled |-> state.enabled, polarity |-> state.polarity] ELSE cur

\* What pm_runtime_get_sync may return: an error, 0, or 1 (already active).
PmResults == {-EINVAL, 0, 1}

Requests ==
  [enabled : BOOLEAN, polarity : {PWM_POLARITY_NORMAL, PWM_POLARITY_INVERSED},
   period : 0 .. MaxNs, duty_cycle : 0 .. MaxNs]

\* Lines 183-186: one .apply call on a channel of the chip.
Apply ==
  /\ ncalls < MaxCalls
  /\ \E hwpwm \in Channels, state \in Requests, pm1, pm2, pm3 \in PmResults :
       \E r \in {thead_pwm_apply(Dev, hwpwm, pwm_state[hwpwm], state, clk_rate,
                                  pm1, pm2, pm3)} :
          /\ ctrl' = r.dev.ctrl
          /\ per' = r.dev.per
          /\ fp' = r.dev.fp
          /\ pm_gets' = r.dev.gets
          /\ pm_puts' = r.dev.puts
          /\ pwm_state' = [pwm_state EXCEPT ![hwpwm] = pwm_apply_state(@, state, r.ret)]
          /\ applied' = [hwpwm |-> hwpwm, state |-> state, ret |-> r.ret,
                         was_enabled |-> pwm_state[hwpwm].enabled,
                         gets |-> r.dev.gets - pm_gets,
                         puts |-> r.dev.puts - pm_puts]
  /\ ncalls' = ncalls + 1
  /\ UNCHANGED <<clk_rate, memvars>>

\* ------------------------------------------------------ specifications
Counts ==
  (0 .. MaxCount)
    \cup (BLOCK_BYTES .. (BLOCK_BYTES + BlockSpan))
    \cup ((2 * BLOCK_BYTES + WORD_MASK) .. (2 * BLOCK_BYTES + WORD_MASK + LongSpan))

NoCall ==
  [hwpwm |-> 0,
   state |-> [enabled |-> FALSE, polarity |-> PWM_POLARITY_NORMAL,
              period |-> 0, duty_cycle |-> 0],
   ret |-> 0, was_enabled |-> FALSE, gets |-> 0, puts |-> 0]

\* The chip after thead_pwm_probe: zeroed pwm->state, registers at reset.
PwmInit ==
  /\ ctrl = [c \in Channels |-> 0]
  /\ per = [c \in Channels |-> 0]
  /\ fp = [c \in Channels |-> 0]
  /\ pwm_state = [c \in Channels |-> [enabled |-> FALSE, polarity |-> PWM_POLARITY_NORMAL]]
  /\ pm_gets = 0
  /\ pm_puts = 0
  /\ applied = NoCall
  /\ ncalls = 0

MemInit(size) ==
  /\ mem = InitMem(size)
  /\ nstores = [a \in 0 .. (size - 1) |-> 0]
  /\ oobst = [t \in Threads |-> {}]
  /\ oobld = [t \in Threads |-> {}]

\* One call, on every count, pair of alignments and setting of the flag.
Init ==
  /\ efficient_unaligned \in BOOLEAN
  /\ \E count \in Counts, sa \in 0 .. WORD_MASK, da \in 0 .. WORD_MASK :
       /\ MemInit(MemSize(count))
       /\ th = [t \in Threads |-> IF t = 1 THEN Call(DstBase(count) + da, SrcBase + sa, count)
                                           ELSE Idle]
  /\ PwmInit
  /\ clk_rate = NSEC_PER_SEC

\* Two concurrent calls that share one source region, which lies between
\* their destinations: [dest of 2][src of 1 and 2][dest of 1].
ConcBase == 2 * BYTES_LONG
InitConc ==
  /\ efficient_unaligned \in BOOLEAN
  /\ \E a \in {0, 3}, n1 \in {ConcShort, ConcLong}, n2 \in {ConcShort, ConcShort + 3} :
       LET dest2 == ConcBase + a
           src == dest2 + n2
           dest1 == src + Max(n1, n2)
       IN /\ MemInit(RoundUp(dest1 + n1, BYTES_LONG) + ConcBase)
          /\ th = [t \in Threads |-> IF t = 1 THEN Call(dest1, src, n1)
                                              ELSE Call(dest2, src, n2)]
  /\ PwmInit
  /\ clk_rate = NSEC_PER_SEC

\* The chip alone: no copy is in progress and no memory is modelled.
InitPwm ==
  /\ efficient_unaligned = FALSE
  /\ mem = << >>
  /\ nstores = << >>
  /\ oobst = [t \in Threads |-> {}]
  /\ oobld = [t \in Threads |-> {}]
  /\ th = [t \in Threads |-> Idle]
  /\ PwmInit
  /\ clk_rate = NSEC_PER_SEC \div 2

Next ==
  \E t \in Threads :
    \/ Entry(t)
    \/ AlignLoad(t)
    \/ AlignStore(t)
    \/ AlignDone(t)
    \/ ShiftBegin(t)
    \/ ShiftFirstLoad(t)
    \/ ShiftLoad(t)
    \/ ShiftStore(t)
    \/ ShiftDone(t)
    \/ AlignedCall(t)
    \/ AlignedEnter(t)
    \/ AlignedLoad(t)
    \/ AlignedStore(t)
    \/ AlignedReturn(t)
    \/ TailLoad(t)
    \/ TailStore(t)
    \/ Return(t)

NextPwm == Apply

Spec == Init /\ [][Next]_vars
SpecConc == InitConc /\ [][Next]_vars
SpecPwm == InitPwm /\ [][NextPwm]_vars

\* ============================================================ properties
Calling == {t \in Threads : th[t].pc # "idle"}
Returned(t) == th[t].pc = "done"
InHelper(t) == th[t].pc \in {"aligned_loop", "aligned_ld", "aligned_st"}

\* The address up to which a call has stored: d, or inside the helper its own
\* dest pointer and the words of the round already stored.
Cursor(t) ==
  IF th[t].pc = "aligned_st" THEN th[t].a_dest + th[t].i * BYTES_LONG
  ELSE IF InHelper(t) THEN th[t].a_dest
  ELSE th[t].d

Region(t) == th[t].dest .. (th[t].dest + th[t].n - 1)

\* The destination region of t holds the bytes its source region held at the call.
Copied(t) == \A k \in 0 .. (th[t].n - 1) : mem[th[t].dest + k] = InitByte(th[t].src + k)

\* C1: when __memcpy(dest, src, count) returns, dest[i] is the original src[i]
\* for every i in [0, count), and the value returned is dest: for every count,
\* pair of alignments and setting of the unaligned-access flag.  On the way
\* there every byte stored so far is already the source byte of its offset.
C1_CopyCorrect ==
  \A t \in Calling :
    /\ \A a \in th[t].dest .. (Cursor(t) - 1) :
         mem[a] = InitByte(th[t].src + (a - th[t].dest))
    /\ Returned(t) => Cursor(t) = th[t].dest + th[t].n /\ th[t].ret = th[t].dest

\* A returned call that took the prefix loop and the shift-merge loop.
C1_Witness ==
  /\ Returned(1)
  /\ ~efficient_unaligned
  /\ th[1].distance # 0
  /\ th[1].dest % BYTES_LONG # 0
  /\ th[1].n >= 3 * BYTES_LONG

\* C2: no store of a call falls outside [dest, dest+count), and when the call
\* returns every byte outside the destination region has the value it had.
C2_NoStoreOutside ==
  \A t \in Calling :
    /\ oobst[t] = {}
    /\ Returned(t) => \A a \in Addr \ Region(t) : mem[a] = InitByte(a)

\* A returned call whose bulk phase stored words, with a byte tail after them.
C2_Witness ==
  /\ Returned(1)
  /\ th[1].aligned_count > 0
  /\ th[1].n % BYTES_LONG # 0
  /\ th[1].dest % BYTES_LONG # 0

\* C3 as stated: no load of a call touches a byte outside [src, src+count).
C3_NoLoadOutside == \A t \in Calling : oobld[t] = {}

\* C3, amended: only the shift-merge path (distance # 0) loads outside
\* [src, src+count), and what it loads outside lies in the aligned words that
\* overlap the region: at most distance bytes below src and at most
\* BYTES_LONG - distance bytes from src+count on.
C3_LoadsInOverlappingWords ==
  \A t \in Calling : \A x \in oobld[t] :
    /\ th[t].distance # 0
    /\ x >= th[t].src - th[t].distance
    /\ x >= (th[t].src \div BYTES_LONG) * BYTES_LONG
    /\ x < th[t].src + th[t].n + (BYTES_LONG - th[t].distance)
    /\ x < RoundUp(th[t].src + th[t].n, BYTES_LONG)

\* A returned shift-merge call that loaded below src and past src+count.
C3_Witness ==
  /\ Returned(1)
  /\ \E x \in oobld[1] : x < th[1].src
  /\ \E x \in oobld[1] : x >= th[1].src + th[1].n

\* The count passed to the helper is the largest multiple of 8 words not above
\* the remaining count, which leaves less than 8 words for the tail loop.
HelperCount(t) ==
  /\ th[t].aligned_count % BLOCK_BYTES = 0
  /\ th[t].a_count % BLOCK_BYTES = 0
  /\ th[t].aligned_count <= th[t].count
  /\ th[t].count - th[t].aligned_count < BLOCK_BYTES

\* C6 as stated: whenever __memcpy_aligned runs, the two pointers it was
\* passed are word-aligned and the count it was passed is the largest multiple
\* of 8 words not above the remaining count.
C6_HelperPrecondition ==
  \A t \in Calling : InHelper(t) =>
    /\ th[t].a_dest % BYTES_LONG = 0
    /\ th[t].a_src % BYTES_LONG = 0
    /\ HelperCount(t)

\* C6, amended: the count passed is the largest multiple of 8 words not above
\* the remaining count; the two pointers passed are word-aligned when the
\* unaligned-access flag is off, and with the flag on they are dest and src
\* as the caller gave them, aligned or not.
C6_HelperCountAndAlignment ==
  \A t \in Calling : InHelper(t) =>
    /\ HelperCount(t)
    /\ ~efficient_unaligned =>
         th[t].a_dest % BYTES_LONG = 0 /\ th[t].a_src % BYTES_LONG = 0
    /\ efficient_unaligned =>
         /\ th[t].d = th[t].dest /\ th[t].s = th[t].src
         /\ (th[t].a_dest - th[t].dest) % BLOCK_BYTES = 0
         /\ (th[t].a_src - th[t].src) % BLOCK_BYTES = 0

\* The helper at work on a non-empty block after an alignment prefix.
C6_Witness ==
  /\ th[1].pc = "aligned_st"
  /\ ~efficient_unaligned
  /\ th[1].dest % BYTES_LONG # 0
  /\ th[1].count > th[1].aligned_count

AtPhaseBoundary(t) == th[t].pc \in {"entry", "align", "bulk", "copy_remainder"}

\* C7: at every point of a call the bytes of [dest, dest+count) stored so far
\* are exactly those below the cursor, each stored once, so the phases write
\* disjoint contiguous ranges; a returned call has stored each byte of the
\* region once and no other byte; and at each phase boundary s and d have
\* both advanced by the original count minus the remaining count.
C7_StoredExactlyOnce ==
  \A t \in Calling :
    /\ \A a \in Region(t) : nstores[a] = IF a < Cursor(t) THEN 1 ELSE 0
    /\ Returned(t) =>
         /\ Cursor(t) = th[t].dest + th[t].n
         /\ \A a \in Addr : (\A u \in Calling : a \notin Region(u)) => nstores[a] = 0
    /\ AtPhaseBoundary(t) =>
         /\ th[t].d - th[t].dest = th[t].n - th[t].count
         /\ th[t].s - th[t].src = th[t].n - th[t].count

\* A call at the start of its tail after a prefix and a shift-merge loop.
C7_Witness ==
  /\ th[1].pc = "copy_remainder"
  /\ th[1].distance # 0
  /\ th[1].dest % BYTES_LONG # 0
  /\ th[1].count > 0
  /\ th[1].n > 2 * BYTES_LONG

\* ------------------------------------------------------------ C4
\* C4: of two calls interleaved load by load and store by store, with disjoint
\* destinations that neither source overlaps, neither ever stores outside its
\* own destination region, and when both have returned each destination holds
\* the bytes its source held and every other byte has the value it had.
C4_ConcurrentCopies ==
  /\ \A t \in Calling : oobst[t] = {}
  /\ (\A t \in Calling : Returned(t)) =>
       /\ \A t \in Calling : Copied(t) /\ th[t].ret = th[t].dest
       /\ \A a \in Addr : (\A t \in Calling : a \notin Region(t)) => mem[a] = InitByte(a)

\* Both calls have returned, and each loaded bytes of the other's destination:
\* call 1 below the shared source, call 2 past its end.
C4_Witness ==
  /\ Calling = Threads
  /\ \A t \in Threads : Returned(t)
  /\ oobld[1] \cap Region(2) # {}
  /\ oobld[2] \cap Region(1) # {}

\* ------------------------------------------------------------ C5
Running(t) == th[t].pc \notin {"idle", "done"}

\* An upper bound on the steps a call has left: two per byte still to copy,
\* and the position inside the current phase.
Rank(t) ==
  LET r == th[t]
      pc == r.pc
      rest == 2 * (r.count % BLOCK_BYTES) + 2
  IN CASE pc = "entry" -> 2 * r.count + 8
       [] pc = "align" -> 2 * r.count + 7
       [] pc = "align_st" -> 2 * r.count + 6
       [] pc = "bulk" -> 2 * r.count + 6
       [] pc = "shift_first" -> 2 * r.count + 5
       [] pc = "shift_loop" -> 2 * r.count + 4
       [] pc = "shift_st" -> 2 * r.count + 3
       [] pc = "aligned_loop" -> rest + 2 * r.a_count
       [] pc = "aligned_ld" -> rest + 2 * r.a_count - 1 - r.i
       [] pc = "aligned_st" -> rest + 2 * r.a_count - 9 - r.i
       [] pc = "copy_remainder" -> 2 * r.count + 1
       [] pc = "tail_st" -> 2 * r.count + 2
       [] OTHER -> 0

\* A call that has not returned can take a step, and has a bounded number left.
Progress ==
  \A t \in Calling :
    /\ Rank(t) >= 0
    /\ Running(t) => ENABLED (Entry(t) \/ AlignLoad(t) \/ AlignStore(t) \/ AlignDone(t)
                               \/ ShiftBegin(t) \/ ShiftFirstLoad(t) \/ ShiftLoad(t)
                               \/ ShiftStore(t) \/ ShiftDone(t) \/ AlignedCall(t)
                               \/ AlignedEnter(t) \/ AlignedLoad(t) \/ AlignedStore(t)
                               \/ AlignedReturn(t) \/ TailLoad(t) \/ TailStore(t)
                               \/ Return(t))

\* Every step takes the calls nearer to their returns.
StepsDecrease == Rank(1)' + Rank(2)' < Rank(1) + Rank(2)

\* Neither the count of __memcpy nor that of __memcpy_aligned is ever below zero.
NeverWraps == \A t \in Calling : th[t].count >= 0 /\ th[t].a_count >= 0

\* C5 as stated: every call returns, and its remaining count never wraps
\* below zero in any of the four loops.
C5_TerminatesNeverWraps == [](Progress /\ NeverWraps) /\ [][StepsDecrease]_vars

\* The count wraps only in the test that ends the tail loop: SIZE_MAX at the
\* return and nowhere else.
WrapsOnlyAtExit ==
  \A t \in Calling :
    /\ th[t].a_count >= 0
    /\ IF Returned(t) THEN th[t].count = -1 ELSE th[t].count >= 0

\* C5, amended: every call returns, and its remaining count does not wrap in
\* the prefix loop, the shift-merge loop, the helper's loop or before a byte of
\* the tail loop is copied; the one wrap is the last while (count--) test,
\* which takes count from 0 to SIZE_MAX as the loop ends.
C5_TerminatesWrapsAtExit == [](Progress /\ WrapsOnlyAtExit) /\ [][StepsDecrease]_vars

\* A returned call that went twice round the helper's loop, after a prefix
\* and before a tail.
C5_Witness ==
  /\ Returned(1)
  /\ th[1].aligned_count = 2 * BLOCK_BYTES
  /\ th[1].dest % BYTES_LONG # 0
  /\ th[1].n - th[1].aligned_count > BYTES_LONG - (th[1].dest % BYTES_LONG)

\* ------------------------------------------------------------ pwm-thead.c
Enabled == {c \in Channels : pwm_state[c].enabled}

\* C8 as stated: when the most recent thead_pwm_apply returned 0 for a request
\* with enabled set, PWM_START is set in the channel's CTRL register.
C8_StartSetWhenEnabled ==
  (ncalls > 0 /\ applied.ret = 0 /\ applied.state.enabled)
    => HasBit(ctrl[applied.hwpwm], PWM_START)

\* C9 as stated: when thead_pwm_apply returned 0 for a request with enabled
\* set, PWM_FPOUT is set in CTRL exactly if the polarity asked for is normal.
C9_FpoutFollowsPolarity ==
  (ncalls > 0 /\ applied.ret = 0 /\ applied.state.enabled)
    => (HasBit(ctrl[applied.hwpwm], PWM_FPOUT)
          <=> applied.state.polarity = PWM_POLARITY_NORMAL)

\* C10 as stated: the get_sync calls less the put_sync calls of an apply call
\* are +1 when it enabled the channel, -1 when it disabled it and 0 otherwise,
\* so the references held equal the number of enabled channels.
C10_RuntimePmBalanced ==
  /\ ncalls > 0 =>
       applied.gets - applied.puts =
         IF applied.ret = 0 /\ ~applied.was_enabled /\ applied.state.enabled THEN 1
         ELSE IF applied.ret = 0 /\ applied.was_enabled /\ ~applied.state.enabled THEN -1
         ELSE 0
  /\ pm_gets - pm_puts = Cardinality(Enabled)
====
